---- MODULE Spec2Model ----
(***************************************************************************)
(* PennyWise backend (src/main.py): a FastAPI application over one SQLite  *)
(* database with three tables, users, expenses and goals.  Every handler   *)
(* is one atomic step: it opens a connection, runs its statements, and     *)
(* answers.  The variables are the database, the number of connections     *)
(* that are open, and the last request with its response.                  *)
(***************************************************************************)
EXTENDS Integers, Sequences, FiniteSets, TLC

VARIABLES
    users,        \* table users: set of rows [email, password]
    expenses,     \* table expenses: rows in rowid order
    expensesSeq,  \* sqlite_sequence entry of expenses (AUTOINCREMENT)
    goals,        \* table goals: rows in rowid order
    goalsSeq,     \* sqlite_sequence entry of goals (AUTOINCREMENT)
    openConns,    \* connections opened by get_db_connection and not closed
    req,          \* the last request: [op, token, args]
    resp          \* its response: [op, status, detail, body]

vars == <<users, expenses, expensesSeq, goals, goalsSeq, openConns, req, resp>>

tables == <<users, expenses, expensesSeq, goals, goalsSeq>>

----------------------------------------------------------------------------
(* Bounds of the model *)

\* largest id AUTOINCREMENT hands out in expenses
MaxExpenseId == 3

\* largest id AUTOINCREMENT hands out in goals
MaxGoalId == 2

\* rows inserted into expenses and goals together, when every handler runs
MaxInserts == 3

\* connections the process can hold open at once
MaxOpenConns == 1

----------------------------------------------------------------------------
(* Text.  A string that the code parses or compares character by character *)
(* (a date) is a sequence of one-character strings.                        *)

Digit == <<"0", "1", "2", "3", "4", "5", "6", "7", "8", "9">>

IsDigit(c) == \E i \in 1..10 : Digit[i] = c

DigitVal(c) == (CHOOSE i \in 1..10 : Digit[i] = c) - 1

\* byte value of a character, as memcmp (SQLite's BINARY collation) sees it
CharCode(c) == IF c = " " THEN 32 ELSE IF c = "-" THEN 45 ELSE 48 + DigitVal(c)

RECURSIVE TextLess(_, _)
\* a < b for two TEXT values under the BINARY collation
TextLess(a, b) ==
    IF b = <<>> THEN FALSE
    ELSE IF a = <<>> THEN TRUE
    ELSE IF CharCode(Head(a)) # CharCode(Head(b))
         THEN CharCode(Head(a)) < CharCode(Head(b))
         ELSE TextLess(Tail(a), Tail(b))

----------------------------------------------------------------------------
(* datetime.datetime.strptime(s, "%Y-%m-%d").date() and its text form      *)

NoDate == [ok |-> FALSE, y |-> 0, m |-> 0, d |-> 0]

IsLeap(y) == (y % 4 = 0) /\ ((y % 100 # 0) \/ (y % 400 = 0))

DaysInMonth(y, m) ==
    IF m = 2 THEN (IF IsLeap(y) THEN 29 ELSE 28)
    ELSE IF m \in {4, 6, 9, 11} THEN 30 ELSE 31

\* MonthField with 1\d for 1[0-2]
MonthFieldAnyTeen(t) ==
    IF Len(t) = 2 /\ t[1] = "1" /\ IsDigit(t[2]) THEN 10 + DigitVal(t[2])
    ELSE IF Len(t) = 2 /\ t[1] = "0" /\ IsDigit(t[2]) /\ t[2] # "0" THEN DigitVal(t[2])
    ELSE IF Len(t) = 1 /\ IsDigit(t[1]) /\ t[1] # "0" THEN DigitVal(t[1])
    ELSE 0

\* %m: 1[0-2] | 0[1-9] | [1-9]; the value, or 0 when t is none of them
MonthField(t) ==
    IF Len(t) = 2 /\ t[1] = "1" /\ t[2] \in {"0", "1", "2"} THEN 10 + DigitVal(t[2])
    ELSE IF Len(t) = 2 /\ t[1] = "0" /\ IsDigit(t[2]) /\ t[2] # "0" THEN DigitVal(t[2])
    ELSE IF Len(t) = 1 /\ IsDigit(t[1]) /\ t[1] # "0" THEN DigitVal(t[1])
    ELSE 0

\* %d: 3[01] | [12]\d | 0[1-9] | [1-9] | " "[1-9]; the value, or 0
DayField(t) ==
    IF Len(t) = 2 /\ t[1] = "3" /\ t[2] \in {"0", "1"} THEN 30 + DigitVal(t[2])
    ELSE IF Len(t) = 2 /\ t[1] \in {"1", "2"} /\ IsDigit(t[2])
         THEN 10 * DigitVal(t[1]) + DigitVal(t[2])
    ELSE IF Len(t) = 2 /\ t[1] \in {"0", " "} /\ IsDigit(t[2]) /\ t[2] # "0"
         THEN DigitVal(t[2])
    ELSE IF Len(t) = 1 /\ IsDigit(t[1]) /\ t[1] # "0" THEN DigitVal(t[1])
    ELSE 0

\* The whole string must match %Y-%m-%d (four digits, "-", month, "-", day,
\* nothing left over) and name a day of the calendar; otherwise ValueError.
strptime(s) ==
    IF Len(s) < 8 \/ (\E i \in 1..4 : ~IsDigit(s[i])) \/ s[5] # "-" THEN NoDate
    ELSE
      LET y    == 1000 * DigitVal(s[1]) + 100 * DigitVal(s[2])
                  + 10 * DigitVal(s[3]) + DigitVal(s[4])
          mlen == IF s[7] = "-" THEN 1 ELSE 2
          m    == MonthField(SubSeq(s, 6, 5 + mlen))
          d    == DayField(SubSeq(s, 7 + mlen, Len(s)))
      IN  IF s[6 + mlen] # "-" \/ m = 0 \/ d = 0 THEN NoDate
          ELSE IF y < 1 \/ d > DaysInMonth(y, m) THEN NoDate
          ELSE [ok |-> TRUE, y |-> y, m |-> m, d |-> d]

\* date.isoformat(), which sqlite3's default adapter binds for a date:
\* "%04d-%02d-%02d"
adapt_date(dt) ==
    << Digit[(dt.y \div 1000) + 1], Digit[((dt.y \div 100) % 10) + 1],
       Digit[((dt.y \div 10) % 10) + 1], Digit[(dt.y % 10) + 1], "-",
       Digit[(dt.m \div 10) + 1], Digit[(dt.m % 10) + 1], "-",
       Digit[(dt.d \div 10) + 1], Digit[(dt.d % 10) + 1] >>

----------------------------------------------------------------------------
(* hashlib.sha256(password.encode()).hexdigest()                           *)

Passwords == {"pw1", "pw2"}

hash_password(password) ==
    CASE password = "pw1" ->
           "c592df4a86933b92addc9842402ddf198c638ea9be58916ee6e3734e1e3152f8"
      [] password = "pw2" ->
           "93915a0a4bf8f634cb1856494dd4304472ad46b9827f541f76b6761c49cc55b0"

----------------------------------------------------------------------------
(* Requests and responses *)

Emails == {"ann@x.org", "bob@x.org", "cy@x.org"}

\* The identity provider's verdict is an input: one token it accepts and one
\* it rejects.  A request may also carry no token at all.
Tokens == {"good", "expired"}

NoToken == "<none>"

NoArgs == [none |-> TRUE]

Request(op, token, args) == [op |-> op, token |-> token, args |-> args]

Response(op, status, detail, body) ==
    [op |-> op, status |-> status, detail |-> detail, body |-> body]

\* raise HTTPException(status_code=status, detail=detail)
HTTPException(op, status, detail) == Response(op, status, detail, <<>>)

\* return {"message": detail}
Message(op, detail) == Response(op, 200, detail, <<>>)

\* auth.verify_id_token(token) returns the decoded token or raises
verify_id_token(token) == token = "good"

\* verify_token as a dependency: its parameter "token: str" is a required
\* query parameter, so a request without it fails validation (422) before
\* verify_token is called; a token the provider rejects raises 401.
verify_token(token) ==
    IF token = NoToken THEN 422
    ELSE IF verify_id_token(token) THEN 200
    ELSE 401

\* What a gated request gets when the dependency fails
Unauthorized(op, token) ==
    IF verify_token(token) = 422
    THEN HTTPException(op, 422, "Field required")
    ELSE HTTPException(op, 401, "Invalid or expired token")

\* get_db_connection: sqlite3.connect succeeds while handles are left
get_db_connection == openConns < MaxOpenConns

----------------------------------------------------------------------------
(* users *)

\* InsertUser without the primary key: the new row replaces the old one
InsertUserReplace(rows, email, hashed) ==
    [ok |-> TRUE,
     rows |-> {row \in rows : row.email # email}
              \cup {[email |-> email, password |-> hashed]}]

\* INSERT INTO users (email, password): email is the PRIMARY KEY, so a row
\* with the same email makes the statement fail (sqlite3.IntegrityError)
InsertUser(rows, email, hashed) ==
    IF \E row \in rows : row.email = email
    THEN [ok |-> FALSE, rows |-> rows]
    ELSE [ok |-> TRUE, rows |-> rows \cup {[email |-> email, password |-> hashed]}]

\* SELECT password FROM users WHERE email = ? ; fetchone()
SelectUser(rows, email) == {row \in rows : row.email = email}

\* CredentialsMatch without the comparison of the hashes
CredentialsMatchLookupOnly(record, password) == record # {}

\* record and record["password"] == hash_password(user.password)
CredentialsMatch(record, password) ==
    record # {} /\ (\A row \in record : row.password = hash_password(password))

register_user(email, password) ==
    /\ get_db_connection
    /\ req' = Request("register_user", NoToken, [email |-> email, password |-> password])
    /\ LET ins == InsertUser(users, email, hash_password(password))
       IN  /\ users' = ins.rows
           /\ resp' = IF ins.ok
                      THEN Message("register_user", "User registered successfully")
                      ELSE HTTPException("register_user", 400, "Email already registered")
    /\ openConns' = (openConns + 1) - 1
    /\ UNCHANGED <<expenses, expensesSeq, goals, goalsSeq>>

login_user(email, password) ==
    /\ get_db_connection
    /\ req' = Request("login_user", NoToken, [email |-> email, password |-> password])
    /\ resp' = IF CredentialsMatch(SelectUser(users, email), password)
               THEN Message("login_user", "Login successful")
               ELSE HTTPException("login_user", 401, "Invalid credentials")
    /\ openConns' = (openConns + 1) - 1
    /\ UNCHANGED tables

----------------------------------------------------------------------------
(* expenses *)

ExpenseIds == 1..MaxExpenseId

ExpenseDescriptions == {"Lunch"}

Categories == {"Food"}

Amounts == {10, 5, 2}

\* Date strings a client sends: "2024-01-01", "2024-1-2" (no zero padding),
\* "2024-13-01" (no such month) and "2024-02-30" (no such day)
DateStrings ==
    { <<"2", "0", "2", "4", "-", "0", "1", "-", "0", "1">>,
      <<"2", "0", "2", "4", "-", "1", "-", "2">>,
      <<"2", "0", "2", "4", "-", "1", "3", "-", "0", "1">>,
      <<"2", "0", "2", "4", "-", "0", "2", "-", "3", "0">> }

\* class Expense(BaseModel)
Expense ==
    [description : ExpenseDescriptions, amount : Amounts,
     category : Categories, date : DateStrings]

\* The rowid AUTOINCREMENT gives the next row: one more than the largest
\* the table ever held
NextRowid(seq) == seq + 1

\* INSERT INTO expenses (description, amount, category, date) VALUES (?,?,?,?)
\* with the date parameter a datetime.date, bound through the default adapter
InsertExpense(rows, seq, expense, formatted_date) ==
    Append(rows, [id |-> NextRowid(seq), description |-> expense.description,
                  amount |-> expense.amount, category |-> expense.category,
                  date |-> adapt_date(formatted_date)])

\* DELETE FROM <table> WHERE id = ?
DeleteWhereId(rows, id) ==
    LET Keep(row) == row.id # id IN SelectSeq(rows, Keep)

\* InsertSorted with a row placed before the rows of equal date
InsertSortedBeforeEqual(sorted, row) ==
    LET k == Cardinality({i \in 1..Len(sorted) : TextLess(sorted[i].date, row.date)})
    IN  SubSeq(sorted, 1, k) \o <<row>> \o SubSeq(sorted, k + 1, Len(sorted))

\* Place of a row in an ordered result: after every row whose date is not
\* greater (the sorter keeps rows with equal keys in scan order)
InsertSorted(sorted, row) ==
    LET k == Cardinality({i \in 1..Len(sorted) : ~TextLess(row.date, sorted[i].date)})
    IN  SubSeq(sorted, 1, k) \o <<row>> \o SubSeq(sorted, k + 1, Len(sorted))

RECURSIVE OrderByDate(_)
\* ... ORDER BY date ASC over a scan of the table in rowid order
OrderByDate(rows) ==
    IF rows = <<>> THEN <<>>
    ELSE InsertSorted(OrderByDate(SubSeq(rows, 1, Len(rows) - 1)), rows[Len(rows)])

\* Accumulate with = for +=
AccumulateAssign(acc, row) ==
    IF \E i \in 1..Len(acc) : acc[i].date = row.date
    THEN [i \in 1..Len(acc) |->
            IF acc[i].date = row.date
            THEN [date |-> acc[i].date, total |-> row.amount]
            ELSE acc[i]]
    ELSE Append(acc, [date |-> row.date, total |-> row.amount])

\* expense_data[expense["date"]] += expense["amount"] on a defaultdict(float),
\* whose keys stay in the order they were first seen
Accumulate(acc, row) ==
    IF \E i \in 1..Len(acc) : acc[i].date = row.date
    THEN [i \in 1..Len(acc) |->
            IF acc[i].date = row.date
            THEN [date |-> acc[i].date, total |-> acc[i].total + row.amount]
            ELSE acc[i]]
    ELSE Append(acc, [date |-> row.date, total |-> 0 + row.amount])

RECURSIVE GraphData(_)
\* the loop of get_expenses_graph over the fetched rows
GraphData(rows) ==
    IF rows = <<>> THEN <<>>
    ELSE Accumulate(GraphData(SubSeq(rows, 1, Len(rows) - 1)), rows[Len(rows)])

add_expense(token, expense) ==
    /\ req' = Request("add_expense", token, expense)
    /\ IF verify_token(token) # 200
       THEN /\ resp' = Unauthorized("add_expense", token)
            /\ UNCHANGED <<tables, openConns>>
       ELSE /\ get_db_connection
            /\ LET formatted_date == strptime(expense.date)
               IN  IF ~formatted_date.ok
                   THEN \* raised with the connection still open
                        /\ resp' = HTTPException("add_expense", 400,
                                       "Invalid date format. Use YYYY-MM-DD")
                        /\ openConns' = openConns + 1
                        /\ UNCHANGED tables
                   ELSE /\ expensesSeq < MaxExpenseId
                        /\ expenses' = InsertExpense(expenses, expensesSeq,
                                                     expense, formatted_date)
                        /\ expensesSeq' = NextRowid(expensesSeq)
                        /\ resp' = Response("add_expense", 200, "",
                              << [id |-> expenses'[Len(expenses')].id,
                                  description |-> expense.description,
                                  amount |-> expense.amount,
                                  category |-> expense.category,
                                  date |-> expense.date] >>)
                        /\ openConns' = (openConns + 1) - 1
                        /\ UNCHANGED <<users, goals, goalsSeq>>

get_expenses(token) ==
    /\ req' = Request("get_expenses", token, NoArgs)
    /\ IF verify_token(token) # 200
       THEN /\ resp' = Unauthorized("get_expenses", token)
            /\ UNCHANGED <<tables, openConns>>
       ELSE /\ get_db_connection
            /\ resp' = Response("get_expenses", 200, "", OrderByDate(expenses))
            /\ openConns' = (openConns + 1) - 1
            /\ UNCHANGED tables

delete_expense(token, expense_id) ==
    /\ req' = Request("delete_expense", token, [id |-> expense_id])
    /\ IF verify_token(token) # 200
       THEN /\ resp' = Unauthorized("delete_expense", token)
            /\ UNCHANGED <<tables, openConns>>
       ELSE /\ get_db_connection
            /\ expenses' = DeleteWhereId(expenses, expense_id)
            /\ resp' = Message("delete_expense",
                  "Expense " \o ToString(expense_id) \o " deleted successfully")
            /\ openConns' = (openConns + 1) - 1
            /\ UNCHANGED <<users, expensesSeq, goals, goalsSeq>>

get_expenses_graph(token) ==
    /\ req' = Request("get_expenses_graph", token, NoArgs)
    /\ IF verify_token(token) # 200
       THEN /\ resp' = Unauthorized("get_expenses_graph", token)
            /\ UNCHANGED <<tables, openConns>>
       ELSE /\ get_db_connection
            /\ resp' = Response("get_expenses_graph", 200, "",
                                GraphData(OrderByDate(expenses)))
            /\ openConns' = (openConns + 1) - 1
            /\ UNCHANGED tables

----------------------------------------------------------------------------
(* goals *)

GoalIds == 1..MaxGoalId

GoalDescriptions == {"", "Save"}

GoalAmounts == {0, 100}

Progresses == {0, 50}

\* class Goal(BaseModel): all three fields are required
Goal ==
    [description : GoalDescriptions, amount : GoalAmounts, progress : Progresses]

\* INSERT INTO goals (description, amount, progress) VALUES (?, ?, ?)
InsertGoal(rows, seq, goal) ==
    Append(rows, [id |-> NextRowid(seq), description |-> goal.description,
                  amount |-> goal.amount, progress |-> goal.progress])

\* SELECT * FROM goals WHERE id = ? ; fetchone()
SelectGoal(rows, goal_id) ==
    LET Hit(row) == row.id = goal_id IN SelectSeq(rows, Hit)

\* MergeGoal with the truthiness test on progress as well
MergeGoalFalsyProgress(existing_goal, goal) ==
    [description |-> IF goal.description # "" THEN goal.description
                     ELSE existing_goal.description,
     amount      |-> IF goal.amount # 0 THEN goal.amount ELSE existing_goal.amount,
     progress    |-> IF goal.progress # 0 THEN goal.progress
                     ELSE existing_goal.progress]

\* The three conditional expressions of update_goal: a description or an
\* amount that is falsy keeps the stored value; progress is a required float,
\* never None, so the incoming one is always taken
MergeGoal(existing_goal, goal) ==
    [description |-> IF goal.description # "" THEN goal.description
                     ELSE existing_goal.description,
     amount      |-> IF goal.amount # 0 THEN goal.amount ELSE existing_goal.amount,
     progress    |-> goal.progress]

\* UPDATE goals SET description = ?, amount = ?, progress = ? WHERE id = ?
UpdateGoalRow(rows, goal_id, updated) ==
    [i \in 1..Len(rows) |->
        IF rows[i].id = goal_id
        THEN [id |-> rows[i].id, description |-> updated.description,
              amount |-> updated.amount, progress |-> updated.progress]
        ELSE rows[i]]

\* RowCount that never reports 0
RowCountAtLeastOne(before, after) ==
    IF Len(before) - Len(after) = 0 THEN 1 ELSE Len(before) - Len(after)

\* cursor.rowcount after the DELETE
RowCount(before, after) == Len(before) - Len(after)

create_goal(token, goal) ==
    /\ req' = Request("create_goal", token, goal)
    /\ IF verify_token(token) # 200
       THEN /\ resp' = Unauthorized("create_goal", token)
            /\ UNCHANGED <<tables, openConns>>
       ELSE /\ get_db_connection
            /\ goalsSeq < MaxGoalId
            /\ goals' = InsertGoal(goals, goalsSeq, goal)
            /\ goalsSeq' = NextRowid(goalsSeq)
            /\ resp' = Response("create_goal", 200, "",
                  << [id |-> goals'[Len(goals')].id,
                      description |-> goal.description,
                      amount |-> goal.amount, progress |-> goal.progress] >>)
            /\ openConns' = (openConns + 1) - 1
            /\ UNCHANGED <<users, expenses, expensesSeq>>

get_goals(token) ==
    /\ req' = Request("get_goals", token, NoArgs)
    /\ IF verify_token(token) # 200
       THEN /\ resp' = Unauthorized("get_goals", token)
            /\ UNCHANGED <<tables, openConns>>
       ELSE /\ get_db_connection
            /\ resp' = Response("get_goals", 200, "", goals)
            /\ openConns' = (openConns + 1) - 1
            /\ UNCHANGED tables

update_goal(token, goal_id, goal) ==
    /\ req' = Request("update_goal", token,
                      [id |-> goal_id, description |-> goal.description,
                       amount |-> goal.amount, progress |-> goal.progress])
    /\ IF verify_token(token) # 200
       THEN /\ resp' = Unauthorized("update_goal", token)
            /\ UNCHANGED <<tables, openConns>>
       ELSE /\ get_db_connection
            /\ LET existing_goal == SelectGoal(goals, goal_id)
               IN  IF existing_goal = <<>>
                   THEN /\ resp' = HTTPException("update_goal", 404, "Goal not found")
                        /\ UNCHANGED goals
                   ELSE LET updated == MergeGoal(existing_goal[1], goal)
                        IN  /\ goals' = UpdateGoalRow(goals, goal_id, updated)
                            /\ resp' = Response("update_goal", 200, "",
                                  << [id |-> goal_id,
                                      description |-> updated.description,
                                      amount |-> updated.amount,
                                      progress |-> updated.progress] >>)
            /\ openConns' = (openConns + 1) - 1
            /\ UNCHANGED <<users, expenses, expensesSeq, goalsSeq>>

delete_goal(token, goal_id) ==
    /\ req' = Request("delete_goal", token, [id |-> goal_id])
    /\ IF verify_token(token) # 200
       THEN /\ resp' = Unauthorized("delete_goal", token)
            /\ UNCHANGED <<tables, openConns>>
       ELSE /\ get_db_connection
            /\ LET after == DeleteWhereId(goals, goal_id)
               IN  IF RowCount(goals, after) = 0
                   THEN \* closed without a commit
                        /\ resp' = HTTPException("delete_goal", 404, "Goal not found")
                        /\ UNCHANGED goals
                   ELSE /\ goals' = after
                        /\ resp' = Message("delete_goal", "Goal deleted successfully")
            /\ openConns' = (openConns + 1) - 1
            /\ UNCHANGED <<users, expenses, expensesSeq, goalsSeq>>

----------------------------------------------------------------------------
(* Specifications *)

\* A fresh deployment: init_db has created the three tables, all empty
Init ==
    /\ users = {}
    /\ expenses = <<>>
    /\ expensesSeq = 0
    /\ goals = <<>>
    /\ goalsSeq = 0
    /\ openConns = 0
    /\ req = Request("init_db", NoToken, NoArgs)
    /\ resp = Response("init_db", 200, "", <<>>)

NextUsers ==
    \/ \E email \in Emails, password \in Passwords : register_user(email, password)
    \/ \E email \in Emails, password \in Passwords : login_user(email, password)

\* registration and login only
SpecUsers == Init /\ [][NextUsers]_vars

AnyToken == Tokens \cup {NoToken}

\* the expense operations, called by a client whose token verifies
NextExpenses ==
    \/ \E expense \in Expense : add_expense("good", expense)
    \/ get_expenses("good")
    \/ \E id \in ExpenseIds : delete_expense("good", id)
    \/ get_expenses_graph("good")

SpecExpenses == Init /\ [][NextExpenses]_vars

\* the goal operations, called by a client whose token verifies
NextGoals ==
    \/ \E goal \in Goal : create_goal("good", goal)
    \/ get_goals("good")
    \/ \E id \in GoalIds, goal \in Goal : update_goal("good", id, goal)
    \/ \E id \in GoalIds : delete_goal("good", id)

SpecGoals == Init /\ [][NextGoals]_vars

\* Every handler, with any token or none, one request body of each kind and
\* (for add_expense) one date that parses and one that does not
SomeExpenses ==
    {e \in Expense : e.amount = 10 /\ e.date[6] # "0"}

SomeGoals == {g \in Goal : g.description = "Save" /\ g.amount = 100}

\* fewer than MaxInserts rows have been inserted into expenses and goals
InsertsLeft == expensesSeq + goalsSeq < MaxInserts

Next ==
    \/ register_user("ann@x.org", "pw1")
    \/ login_user("ann@x.org", "pw1")
    \/ \E token \in AnyToken, expense \in SomeExpenses :
          InsertsLeft /\ add_expense(token, expense)
    \/ \E token \in AnyToken : get_expenses(token)
    \/ \E token \in AnyToken, id \in ExpenseIds : delete_expense(token, id)
    \/ \E token \in AnyToken : get_expenses_graph(token)
    \/ \E token \in AnyToken, goal \in SomeGoals :
          InsertsLeft /\ create_goal(token, goal)
    \/ \E token \in AnyToken : get_goals(token)
    \/ \E token \in AnyToken, id \in GoalIds, goal \in SomeGoals :
          update_goal(token, id, goal)
    \/ \E token \in AnyToken, id \in GoalIds : delete_goal(token, id)

Spec == Init /\ [][Next]_vars

----------------------------------------------------------------------------
(* Properties *)

Rows(seq) == {seq[i] : i \in 1..Len(seq)}

IdsOf(seq) == {seq[i].id : i \in 1..Len(seq)}

\* the request carries a token and the identity provider accepts it
Accepted(r) == r.token # NoToken /\ verify_id_token(r.token)

GatedOps ==
    {"add_expense", "get_expenses", "delete_expense", "get_expenses_graph",
     "create_goal", "get_goals", "update_goal", "delete_goal"}

\* The strings that spell a day of the calendar as year-month-day, written
\* out from the calendar: a four-digit year, the month and the day with or
\* without a leading zero (the day also with a leading blank)
Two(n) == <<Digit[(n \div 10) + 1], Digit[(n % 10) + 1]>>

Four(n) == Two(n \div 100) \o Two(n % 100)

MonthLengths(y) ==
    <<31, IF y % 400 = 0 \/ (y % 4 = 0 /\ y % 100 # 0) THEN 29 ELSE 28,
      31, 30, 31, 30, 31, 31, 30, 31, 30, 31>>

MonthSpellings(m) == IF m < 10 THEN {Two(m), <<Digit[m + 1]>>} ELSE {Two(m)}

DaySpellings(d) ==
    IF d < 10 THEN {Two(d), <<Digit[d + 1]>>, <<" ", Digit[d + 1]>>} ELSE {Two(d)}

CalendarDays ==
    {t \in {2023, 2024} \X (1..12) \X (1..31) : t[3] <= MonthLengths(t[1])[t[2]]}

CalendarDateStrings ==
    UNION { { Four(t[1]) \o <<"-">> \o ms \o <<"-">> \o ds :
                ms \in MonthSpellings(t[2]), ds \in DaySpellings(t[3]) } :
            t \in CalendarDays }

\* one calendar date is before another
DateLess(a, b) ==
    \/ a.y < b.y
    \/ a.y = b.y /\ a.m < b.m
    \/ a.y = b.y /\ a.m = b.m /\ a.d < b.d

RECURSIVE SumAmounts(_, _)
\* sum of the amounts of the rows that have the date
SumAmounts(rows, date) ==
    IF rows = <<>> THEN 0
    ELSE (IF Head(rows).date = date THEN Head(rows).amount ELSE 0)
         + SumAmounts(Tail(rows), date)

(* C1: a gated request whose token the identity provider rejects, or that  *)
(* carries no token, ends with 401, runs nothing of the handler (no        *)
(* connection is opened) and leaves users, expenses and goals unchanged.   *)
C1_RejectedRequestIs401 ==
    [][ (req'.op \in GatedOps /\ ~Accepted(req'))
          => (resp'.status = 401 /\ tables' = tables /\ openConns' = openConns) ]_vars

(* C2: update_goal on an id that is not stored answers 404 and leaves goals *)
(* unchanged; on a stored id the row takes the incoming description unless  *)
(* it is "", the incoming amount unless it is 0, and the incoming progress  *)
(* always; every other row is unchanged and the response is the new row.    *)
C2_UpdateGoalMerges ==
    [][ (req'.op = "update_goal" /\ Accepted(req')) =>
          LET a == req'.args
          IN  IF a.id \notin IdsOf(goals)
              THEN resp'.status = 404 /\ tables' = tables
              ELSE \E i \in 1..Len(goals) :
                     /\ goals[i].id = a.id
                     /\ Len(goals') = Len(goals)
                     /\ goals'[i] =
                          [id |-> a.id,
                           description |-> IF a.description = ""
                                           THEN goals[i].description
                                           ELSE a.description,
                           amount |-> IF a.amount = 0 THEN goals[i].amount
                                      ELSE a.amount,
                           progress |-> a.progress]
                     /\ \A j \in 1..Len(goals) : j # i => goals'[j] = goals[j]
                     /\ resp'.status = 200
                     /\ resp'.body = <<goals'[i]>> ]_vars

\* the update of the specification's example: {"", 0, 0} against a stored
\* {"Save", 100, 50} gives {"Save", 100, 0}
C2_Witness ==
    /\ req.op = "update_goal" /\ resp.status = 200
    /\ req.args.description = "" /\ req.args.amount = 0 /\ req.args.progress = 0
    /\ resp.body[1].description = "Save" /\ resp.body[1].amount = 100
    /\ resp.body[1].progress = 0
    /\ \E i \in 1..Len(goals) : goals[i] = resp.body[1]
    /\ Len(goals) = 2

(* C3: delete_expense on an id that is not stored answers success and       *)
(* delete_goal on an id that is not stored answers 404, both leaving every  *)
(* table unchanged; on a stored id each answers success and removes the     *)
(* row with that id and nothing else.                                       *)
C3_DeletesDifferOnMissingId ==
    [][ Accepted(req') =>
          /\ req'.op = "delete_expense" =>
                /\ resp'.status = 200
                /\ Rows(expenses') = {r \in Rows(expenses) : r.id # req'.args.id}
                /\ Len(expenses') = Cardinality(Rows(expenses'))
                /\ req'.args.id \notin IdsOf(expenses) => expenses' = expenses
                /\ <<users, expensesSeq, goals, goalsSeq>>'
                     = <<users, expensesSeq, goals, goalsSeq>>
          /\ req'.op = "delete_goal" =>
                /\ IF req'.args.id \in IdsOf(goals)
                   THEN /\ resp'.status = 200
                        /\ Rows(goals') = {r \in Rows(goals) : r.id # req'.args.id}
                        /\ Len(goals') = Cardinality(Rows(goals'))
                   ELSE resp'.status = 404 /\ goals' = goals
                /\ <<users, expenses, expensesSeq, goalsSeq>>'
                     = <<users, expenses, expensesSeq, goalsSeq>> ]_vars

\* delete_expense has answered success for an id no row ever had, with rows
\* in every table
C3_Witness ==
    /\ req.op = "delete_expense" /\ Accepted(req) /\ resp.status = 200
    /\ req.args.id > expensesSeq
    /\ users # {} /\ expenses # <<>> /\ goals # <<>>

(* C4: add_expense with a date string that does not spell a day of the      *)
(* calendar as year-month-day answers 400 and leaves every table as it was, *)
(* and every stored expense has a date that spells a day of the calendar.   *)
C4_BadDateInsertsNothing ==
    /\ [][ (req'.op = "add_expense" /\ Accepted(req')
            /\ req'.args.date \notin CalendarDateStrings)
             => (resp'.status = 400 /\ tables' = tables) ]_vars
    /\ [](\A i \in 1..Len(expenses) : expenses[i].date \in CalendarDateStrings)

\* "2024-13-01" has been refused while the table holds rows
C4_Witness ==
    /\ req.op = "add_expense" /\ resp.status = 400
    /\ req.args.date = <<"2", "0", "2", "4", "-", "1", "3", "-", "0", "1">>
    /\ Len(expenses) >= 2

(* C5: get_expenses_graph returns one {date, total} pair per distinct stored *)
(* date, total the sum of the amounts of the expenses of that date, the      *)
(* pairs in strictly ascending date order, and changes no table.             *)
C5_GraphTotals ==
    [][ (req'.op = "get_expenses_graph" /\ resp'.status = 200) =>
          LET body == resp'.body
          IN  /\ tables' = tables
              /\ {body[i].date : i \in 1..Len(body)}
                   = {expenses[k].date : k \in 1..Len(expenses)}
              /\ \A i, j \in 1..Len(body) :
                    i < j => /\ TextLess(body[i].date, body[j].date)
                             /\ DateLess(strptime(body[i].date), strptime(body[j].date))
              /\ \A i \in 1..Len(body) :
                    /\ DOMAIN body[i] = {"date", "total"}
                    /\ body[i].total = SumAmounts(expenses, body[i].date) ]_vars

\* the specification's example: 10 and 5 on 2024-01-01, 2 on 2024-01-02
C5_Witness ==
    /\ req.op = "get_expenses_graph"
    /\ resp.body =
         << [date |-> <<"2", "0", "2", "4", "-", "0", "1", "-", "0", "1">>, total |-> 15],
            [date |-> <<"2", "0", "2", "4", "-", "0", "1", "-", "0", "2">>, total |-> 2] >>
    /\ Len(expenses) = 3

(* C6: register_user with an email that is already stored answers 400 and   *)
(* changes no table, so the stored hash stays that of the first             *)
(* registration; no two user rows have the same email.                      *)
C6_DuplicateEmailRejected ==
    /\ [][ (req'.op = "register_user"
            /\ \E row \in users : row.email = req'.args.email)
             => (resp'.status = 400 /\ tables' = tables) ]_vars
    /\ [](\A r1, r2 \in users : r1.email = r2.email => r1 = r2)

\* a second registration of an email, with another password, has been
\* refused and the stored hash is not the hash of that password
C6_Witness ==
    /\ req.op = "register_user" /\ resp.status = 400
    /\ resp.detail = "Email already registered"
    /\ \E row \in users :
          /\ row.email = req.args.email
          /\ row.password # hash_password(req.args.password)

(* C7: login_user succeeds exactly when a user with the email is stored and *)
(* the hash of the password is the stored hash; every failure is the same   *)
(* 401 response with the same detail; login changes no table.               *)
C7_LoginChecksBoth ==
    [][ req'.op = "login_user" =>
          /\ (resp'.status = 200) <=>
                (\E row \in users : /\ row.email = req'.args.email
                                    /\ row.password = hash_password(req'.args.password))
          /\ resp'.status # 200 =>
                resp' = [op |-> "login_user", status |-> 401,
                         detail |-> "Invalid credentials", body |-> <<>>]
          /\ tables' = tables ]_vars

\* a login with a stored email and a wrong password has been refused
C7_Witness ==
    /\ req.op = "login_user" /\ resp.status = 401
    /\ \E row \in users : row.email = req.args.email
    /\ \E row \in users : row.email # req.args.email

C9_AddReturnsStoredRow ==
    [][ (req'.op = "add_expense" /\ resp'.status = 200) =>
          LET r == resp'.body[1]
          IN  /\ r.id \notin IdsOf(expenses)
              /\ \E row \in Rows(OrderByDate(expenses')) : row.id = r.id
              /\ \A row \in Rows(OrderByDate(expenses')) : row.id = r.id => row = r ]_vars

(* C10: every request leaves as many connections open as it found.          *)
C10_ConnectionsReleased == [][openConns' = openConns]_vars

====
